---- MODULE Spec2Model ----
(***************************************************************************)
(* Model of the boids simulation of src/src/boids_plugin.rs: the per-frame *)
(* systems wrap_around_screen, update_spatial_tree, separate,              *)
(* align_and_cohesion, apply_acceleration and update_position, run by the  *)
(* PreUpdate and Update schedules over the spawned boids.                  *)
(*                                                                         *)
(* Scheduling.  Each schedule runs its systems once per frame, PreUpdate   *)
(* before Update.  The systems of a schedule are registered without an     *)
(* order between them, so any pending system may start as long as nothing  *)
(* it conflicts with (one writes a component or resource the other uses)   *)
(* is running.  separate and align_and_cohesion conflict with neither      *)
(* other and may overlap: the runs of their closures are single steps.     *)
(* The other systems run alone: each is one step over all boids.           *)
(*                                                                         *)
(* Numbers.  Coordinates are integers (a grid of one world unit); z is 0   *)
(* for every vector of the simulation and is left out.  Lengths are        *)
(* compared through their squares, which is exact.  A unit vector          *)
(* (normalize_or_zero) is kept exactly, as a direction with its squared    *)
(* length, and meets the grid only when it is multiplied by a scalar; the  *)
(* product is the real value rounded toward zero.  Quotients are kept as   *)
(* exact fractions (a vector with a denominator).                          *)
(***************************************************************************)
EXTENDS Integers, Sequences, FiniteSets, TLC

\* ------------------------------------------------------------------ bounds
NumAgents == 2
MaxFrames == 1

\* --------------------------------------------------------------- constants
DefaultMaxSpeed == 240
DefaultMaxForce == 30
desired_separation == 10
neighbor_distance == 20
SeparationMultiplier == 2
AlignmentMultiplier == 1
CohesionMultiplier == 1
\* half of camera.logical_target_size(): the viewport the camera reports
HalfWidth == 500
HalfHeight == 400

\* ------------------------------------------------------------ Vec3 algebra
Vec(x, y) == [x |-> x, y |-> y]
ZeroVec == Vec(0, 0)
VAdd(a, b) == Vec(a.x + b.x, a.y + b.y)
VSub(a, b) == Vec(a.x - b.x, a.y - b.y)
VScale(a, k) == Vec(a.x * k, a.y * k)
LenSq(a) == a.x * a.x + a.y * a.y
DistSq(a, b) == LenSq(VSub(a, b))
Abs(n) == IF n < 0 THEN -n ELSE n
Sign(n) == IF n < 0 THEN -1 ELSE IF n > 0 THEN 1 ELSE 0

\* floor(sqrt(n)) for n >= 0
RECURSIVE ISqrt(_)
ISqrt(n) ==
  IF n < 4 THEN (IF n = 0 THEN 0 ELSE 1)
  ELSE LET r == 2 * ISqrt(n \div 4)
       IN IF (r + 1) * (r + 1) <= n THEN r + 1 ELSE r

\* value.length() > max
LengthGreater(value, max) == max < 0 \/ LenSq(value) > max * max

\* Vec3::normalize_or_zero: the direction value/|value|, the zero vector
\* when the length is zero
normalize_or_zero(value) == [x |-> value.x, y |-> value.y, n2 |-> LenSq(value)]

\* k * sqrt(n2) <= t, for k > 0, t >= 0: k^2 * n2 <= t^2 with t = a * k + b,
\* arranged so that no intermediate value leaves 32 bits
ScaledAtMost(k, t, n2) ==
  LET a == t \div k
      b == t % k
  IN k * (n2 - a * a) <= 2 * a * b + (b * b) \div k

\* the largest k' <= k with k' * sqrt(n2) <= t
RECURSIVE FloorFrom(_, _, _)
FloorFrom(k, t, n2) ==
  IF k = 0 \/ ScaledAtMost(k, t, n2) THEN k ELSE FloorFrom(k - 1, t, n2)

\* floor(t / sqrt(n2)) for t >= 0, n2 > 0
FloorRatio(t, n2) == FloorFrom(t \div ISqrt(n2), t, n2)

\* unit * s for a unit vector and a scalar s: each component is
\* s * x / sqrt(n2), rounded toward zero
ScaleComponent(c, s, n2) == Sign(c) * Sign(s) * FloorRatio(Abs(c) * Abs(s), n2)
MulUnit(unit, s) ==
  IF unit.n2 = 0 THEN ZeroVec
  ELSE Vec(ScaleComponent(unit.x, s, unit.n2), ScaleComponent(unit.y, s, unit.n2))

\* a variant that clamps each component to [-max, max] instead of the length
ClampComponents(value, max) ==
  LET Clamp(c) == IF c > max THEN max ELSE IF c < -max THEN -max ELSE c
  IN Vec(Clamp(value.x), Clamp(value.y))

clamp_magnitude(value, max) ==
  IF LengthGreater(value, max) THEN MulUnit(normalize_or_zero(value), max)
  ELSE value

\* exact fractions of vectors: (x / d, y / d), d > 0
Frac(v, d) == [x |-> v.x, y |-> v.y, d |-> d]
ZeroFrac == Frac(ZeroVec, 1)
FracAdd(a, b) == [x |-> a.x * b.d + b.x * a.d, y |-> a.y * b.d + b.y * a.d, d |-> a.d * b.d]
FracDiv(a, k) == [x |-> a.x, y |-> a.y, d |-> a.d * k]
FracSubVec(a, v) == [x |-> a.x - v.x * a.d, y |-> a.y - v.y * a.d, d |-> a.d]
\* the direction of a fraction with a positive denominator is that of its numerator
FracNormalizeOrZero(a) == normalize_or_zero(Vec(a.x, a.y))

\* ------------------------------------------------- the kd-tree (kd_tree crate)
\* An item of the tree: KdTreeItem { point, entity }
KdTreeItem(point, entity) == [point |-> point, entity |-> entity]
\* KdPoint::at
At(item, k) == IF k = 0 THEN item.point.x ELSE item.point.y
Dim == 2

\* items in ascending order of coordinate k (insertion into a sorted sequence)
RECURSIVE InsertSorted(_, _, _)
InsertSorted(sorted, item, k) ==
  IF sorted = <<>> THEN <<item>>
  ELSE IF At(item, k) < At(Head(sorted), k) THEN <<item>> \o sorted
  ELSE <<Head(sorted)>> \o InsertSorted(Tail(sorted), item, k)
RECURSIVE SortByAxis(_, _)
SortByAxis(items, k) ==
  IF items = <<>> THEN <<>>
  ELSE InsertSorted(SortByAxis(Tail(items), k), Head(items), k)

\* kd_sort: the median of axis k in the middle, the halves sorted on the next axis
RECURSIVE KdSort(_, _)
KdSort(items, axis) ==
  IF Len(items) < 2 THEN items
  ELSE LET sorted == SortByAxis(items, axis)
           mid == Len(items) \div 2
           next == (axis + 1) % Dim
       IN KdSort(SubSeq(sorted, 1, mid), next)
            \o <<sorted[mid + 1]>>
            \o KdSort(SubSeq(sorted, mid + 2, Len(sorted)), next)
KdTreeBuild(items) == KdSort(items, 0)

\* the comparison of within_radius: the item against the box around the query
CompareToBox(item, k, query, radius) ==
  IF At(item, k) < (IF k = 0 THEN query.x ELSE query.y) - radius THEN "Less"
  ELSE IF At(item, k) > (IF k = 0 THEN query.x ELSE query.y) + radius THEN "Greater"
  ELSE "Equal"

\* kd_within_by_cmp: the items of the tree inside the box
RECURSIVE KdWithin(_, _, _, _)
KdWithin(tree, axis, query, radius) ==
  IF tree = <<>> THEN <<>>
  ELSE LET mid == Len(tree) \div 2
           lower == SubSeq(tree, 1, mid)
           item == tree[mid + 1]
           upper == SubSeq(tree, mid + 2, Len(tree))
           next == (axis + 1) % Dim
           c == CompareToBox(item, axis, query, radius)
       IN IF c = "Equal"
          THEN (IF CompareToBox(item, next, query, radius) = "Equal" THEN <<item>> ELSE <<>>)
                 \o KdWithin(lower, next, query, radius)
                 \o KdWithin(upper, next, query, radius)
          ELSE IF c = "Less" THEN KdWithin(upper, next, query, radius)
          ELSE KdWithin(lower, next, query, radius)

\* KdTree::within_radius: the box search, then the squared distance test
KdWithinRadius(tree, query, radius) ==
  SelectSeq(KdWithin(tree, 0, query, radius),
            LAMBDA item : DistSq(item.point, query) < radius * radius)

\* SpatialTree::query_within_radius
query_within_radius(tree, point, radius) == KdWithinRadius(tree, point, radius)

\* -------------------------------------------------------------------- state
VARIABLES
  entities,          \* the spawned boids (Entity handles)
  translation,       \* Transform.translation of each boid
  velocity,          \* Velocity
  separation_force,  \* SeparationForce
  aligment_force,    \* AligmentForce
  cohesion_force,    \* CohesionForce
  acceleration,      \* Acceleration
  kd_tree,           \* SpatialTree.tree: the items in kd order
  schedule,          \* the schedule of the frame that is running
  status,            \* of each system in this frame: pending, running, done
  visited,           \* the boids the closure of each running force pass has processed
  delta_seconds,     \* Time::delta_seconds() of this frame
  frame,             \* number of the frame
  separate_locals,   \* sum, count, steer of the last run of separate's closure
  align_locals       \* the locals of the last run of align_and_cohesion's closure

vars == <<entities, translation, velocity, separation_force, aligment_force,
          cohesion_force, acceleration, kd_tree, schedule, status, visited,
          delta_seconds, frame, separate_locals, align_locals>>

kinematics == <<translation, velocity>>
forces == <<separation_force, aligment_force, cohesion_force, acceleration>>
locals == <<separate_locals, align_locals>>

\* MaxSpeed and MaxForce of a boid: BoidBundle::default, never written
max_speed(e) == DefaultMaxSpeed
max_force(e) == DefaultMaxForce

\* ------------------------------------------------------------ the schedules
PreUpdateSystems == {"wrap_around_screen", "update_spatial_tree"}
UpdateSystems == {"separate", "align_and_cohesion", "apply_acceleration", "update_position"}
Systems == PreUpdateSystems \cup UpdateSystems
\* the two systems that can run at the same time: neither writes what the
\* other uses; their closures are followed boid by boid
ForcePasses == {"separate", "align_and_cohesion"}
ScheduleOf(s) == IF s \in PreUpdateSystems THEN "PreUpdate" ELSE "Update"

\* what the parameters of each system borrow mutably and immutably
Writes(s) ==
  CASE s = "wrap_around_screen" -> {"Transform"}
    [] s = "update_spatial_tree" -> {"SpatialTree"}
    [] s = "separate" -> {"SeparationForce"}
    [] s = "align_and_cohesion" -> {"AligmentForce", "CohesionForce"}
    [] s = "apply_acceleration" ->
         {"Velocity", "Acceleration", "AligmentForce", "SeparationForce", "CohesionForce"}
    [] s = "update_position" -> {"Transform"}
Reads(s) ==
  CASE s = "wrap_around_screen" -> {"Velocity", "Camera"}
    [] s = "update_spatial_tree" -> {"Transform"}
    [] s = "separate" ->
         {"Transform", "Velocity", "MaxSpeed", "MaxForce", "ForceMultipliers", "SpatialTree"}
    [] s = "align_and_cohesion" ->
         {"Transform", "Velocity", "MaxSpeed", "MaxForce", "ForceMultipliers", "SpatialTree"}
    [] s = "apply_acceleration" -> {"MaxSpeed", "Time"}
    [] s = "update_position" -> {"Velocity", "Time"}
\* two systems run at the same time only when neither writes what the other uses
Conflict(s, t) ==
  \/ Writes(s) \cap (Reads(t) \cup Writes(t)) # {}
  \/ Writes(t) \cap (Reads(s) \cup Writes(s)) # {}

\* a system of the running schedule may start when nothing it conflicts with
\* is running; the systems of a schedule are registered without an order
CanStart(s) ==
  /\ schedule = ScheduleOf(s)
  /\ status[s] = "pending"
  /\ \A t \in Systems : status[t] = "running" => ~Conflict(s, t)

\* ------------------------------------------------------------------- inputs
\* The boids are spawned outside the plugin.  A layout gives the positions of
\* the boids in spawn order, a heading their velocities: boids near each other,
\* at one point, outside the viewport, and at rest, opposed or fast.
SpawnLayouts ==
  { <<Vec(0, 0), Vec(6, 0), Vec(0, 15)>>,
    <<Vec(0, 0), Vec(0, 0), Vec(6, 0)>>,
    <<Vec(0, 0), Vec(6, 8), Vec(0, 15)>>,
    <<Vec(501, -401), Vec(-500, 400), Vec(0, 0)>> }
SpawnHeadings ==
  { <<Vec(0, 0), Vec(0, 0), Vec(0, 0)>>,
    <<Vec(1, 0), Vec(-1, 0), Vec(0, 230)>>,
    <<Vec(138, 184), Vec(138, 184), Vec(1, 0)>>,
    <<Vec(0, 0), Vec(0, 230), Vec(-1, 0)>> }
DeltaSeconds == {0, 1}

NoSeparateLocals == [sum |-> ZeroFrac, count |-> 0, steer |-> ZeroVec]
NoAlignLocals ==
  [position_sum |-> ZeroVec, velocity_sum |-> ZeroVec, count |-> 0,
   velocity_diff |-> ZeroVec, steer |-> ZeroVec]

Init ==
  /\ \E n \in 0..NumAgents : entities = 1..n
  /\ \E layout \in SpawnLayouts : translation = [e \in entities |-> layout[e]]
  /\ \E heading \in SpawnHeadings : velocity = [e \in entities |-> heading[e]]
  /\ separation_force = [e \in entities |-> ZeroVec]
  /\ aligment_force = [e \in entities |-> ZeroVec]
  /\ cohesion_force = [e \in entities |-> ZeroVec]
  /\ acceleration = [e \in entities |-> ZeroVec]
  /\ kd_tree = KdTreeBuild(<<>>)
  /\ schedule = "PreUpdate"
  /\ status = [s \in Systems |-> "pending"]
  /\ visited = [s \in ForcePasses |-> {}]
  /\ delta_seconds \in DeltaSeconds
  /\ frame = 1
  /\ separate_locals = [e \in entities |-> NoSeparateLocals]
  /\ align_locals = [e \in entities |-> NoAlignLocals]

\* ------------------------------------------------- running a force pass
\* par_iter_mut().for_each: the system starts, its closure runs once for every
\* boid in any order, the system ends.  A system that conflicts with every
\* other system of its schedule runs alone and is one step.
Begin(s) ==
  /\ s \in ForcePasses
  /\ CanStart(s)
  /\ status' = [status EXCEPT ![s] = "running"]
  /\ UNCHANGED <<entities, kinematics, forces, kd_tree, schedule, visited,
                 delta_seconds, frame, locals>>

End(s) ==
  /\ s \in ForcePasses
  /\ status[s] = "running"
  /\ visited[s] = entities
  /\ status' = [status EXCEPT ![s] = "done"]
  /\ UNCHANGED <<entities, kinematics, forces, kd_tree, schedule, visited,
                 delta_seconds, frame, locals>>

\* the closure of force pass s is about to run for boid e
Runs(s, e) ==
  /\ status[s] = "running"
  /\ e \in entities \ visited[s]
Visit(s, e) == visited' = [visited EXCEPT ![s] = @ \cup {e}]
Done(s) == status' = [status EXCEPT ![s] = "done"]

\* ------------------------------------------------------- wrap_around_screen
\* a variant that stops at the edge it crossed instead of wrapping
WrapAxisStay(c, half) ==
  IF c > half THEN half
  ELSE IF c < -half THEN -half
  ELSE c

\* a variant that forgets the lower edge
WrapAxisUpperOnly(c, half) == IF c > half THEN -half ELSE c

WrapAxis(c, half) ==
  IF c > half THEN -half
  ELSE IF c < -half THEN half
  ELSE c

\* the closure: the position of one boid after the wrap
Wrapped(p) == Vec(WrapAxis(p.x, HalfWidth), WrapAxis(p.y, HalfHeight))

\* a variant that bounces: a boid that crossed an edge also turns back
wrap_around_screen_bounce ==
  /\ CanStart("wrap_around_screen")
  /\ translation' = [e \in entities |-> Wrapped(translation[e])]
  /\ velocity' = [e \in entities |->
                    IF Wrapped(translation[e]) # translation[e]
                    THEN VScale(velocity[e], -1)
                    ELSE velocity[e]]
  /\ Done("wrap_around_screen")
  /\ UNCHANGED <<entities, forces, kd_tree, schedule, visited,
                 delta_seconds, frame, locals>>

wrap_around_screen ==
  /\ CanStart("wrap_around_screen")
  /\ translation' = [e \in entities |-> Wrapped(translation[e])]
  /\ Done("wrap_around_screen")
  /\ UNCHANGED <<entities, velocity, forces, kd_tree, schedule, visited,
                 delta_seconds, frame, locals>>

\* ------------------------------------------------------ update_spatial_tree
\* a variant that stores the x coordinate twice
ItemOfXX(e) == KdTreeItem(Vec(translation[e].x, translation[e].x), e)

\* the item pushed for a tracked boid
ItemOf(e) == KdTreeItem(Vec(translation[e].x, translation[e].y), e)

\* raw_vec: one item for each boid, in the order of the query
RECURSIVE RawVec(_)
RawVec(n) == IF n = 0 THEN <<>> ELSE Append(RawVec(n - 1), ItemOf(n))

update_spatial_tree ==
  /\ CanStart("update_spatial_tree")
  /\ kd_tree' = KdTreeBuild(RawVec(Cardinality(entities)))
  /\ Done("update_spatial_tree")
  /\ UNCHANGED <<entities, kinematics, forces, schedule, visited,
                 delta_seconds, frame, locals>>

\* ----------------------------------------------------------------- separate
\* a variant that also pushes every other boid the opposite way
AccumulateWithReaction(force, e, delta) ==
  [o \in DOMAIN force |->
     IF o = e THEN VAdd(force[o], delta) ELSE VSub(force[o], delta)]

\* force.0 += delta, on the accumulator of the boid the closure runs for
Accumulate(force, e, delta) == [force EXCEPT ![e] = VAdd(@, delta)]

\* a variant that skips nothing
IsCoincidentNever(here, other_position) == FALSE

\* distance == 0.0: the neighbour is skipped
IsCoincident(here, other_position) == DistSq(here, other_position) = 0

\* diff.normalize_or_zero() / distance, which is diff / distance^2
SeparationDiff(here, other_position) ==
  Frac(VSub(here, other_position), DistSq(here, other_position))

\* the loop over the results of the query: sum and count
RECURSIVE SeparateLoop(_, _, _)
SeparateLoop(results, here, acc) ==
  IF results = <<>> THEN acc
  ELSE LET other_position == Head(results).point
       IN IF IsCoincident(here, other_position)
          THEN SeparateLoop(Tail(results), here, acc)
          ELSE SeparateLoop(Tail(results), here,
                 [sum |-> FracAdd(acc.sum, SeparationDiff(here, other_position)),
                  count |-> acc.count + 1])

\* the steering delta toward a desired direction: the direction at max_speed,
\* minus the velocity, clamped to max_force
Steer(direction, e) ==
  clamp_magnitude(VSub(MulUnit(direction, max_speed(e)), velocity[e]), max_force(e))

\* sum and count after the loop over the results of the query
SeparateSums(e) ==
  SeparateLoop(query_within_radius(kd_tree, translation[e], desired_separation),
               translation[e], [sum |-> ZeroFrac, count |-> 0])

\* the locals at the end of the closure, from the sums of the loop
SeparateClosure(loop, e) ==
  [sum |-> loop.sum,
   count |-> loop.count,
   steer |-> IF loop.count > 0
             THEN Steer(FracNormalizeOrZero(FracDiv(loop.sum, loop.count)), e)
             ELSE ZeroVec]

separate(e) ==
  /\ Runs("separate", e)
  /\ \E loop \in {SeparateSums(e)} : \E l \in {SeparateClosure(loop, e)} :
        /\ separate_locals' = [separate_locals EXCEPT ![e] = l]
        /\ separation_force' =
             IF l.count > 0
             THEN Accumulate(separation_force, e, VScale(l.steer, SeparationMultiplier))
             ELSE separation_force
  /\ Visit("separate", e)
  /\ UNCHANGED <<entities, kinematics, aligment_force, cohesion_force, acceleration,
                 kd_tree, schedule, status, delta_seconds, frame, align_locals>>

\* ------------------------------------------------------- align_and_cohesion
\* the loop over the results of the query: position_sum, velocity_sum and count
RECURSIVE AlignLoop(_, _)
AlignLoop(results, acc) ==
  IF results = <<>> THEN acc
  ELSE LET result == Head(results)
       IN AlignLoop(Tail(results),
            [position_sum |-> VAdd(acc.position_sum, result.point),
             velocity_sum |-> IF result.entity \in entities
                              THEN VAdd(acc.velocity_sum, velocity[result.entity])
                              ELSE acc.velocity_sum,
             count |-> acc.count + 1])

\* position_sum, velocity_sum and count after the loop over the results
AlignSums(e) ==
  AlignLoop(query_within_radius(kd_tree, translation[e], neighbor_distance),
            [position_sum |-> ZeroVec, velocity_sum |-> ZeroVec, count |-> 0])

\* the locals at the end of the closure, from the sums of the loop
AlignClosure(loop, e) ==
  IF loop.count = 0
  THEN [position_sum |-> loop.position_sum, velocity_sum |-> loop.velocity_sum,
        count |-> 0, velocity_diff |-> ZeroVec, steer |-> ZeroVec]
  ELSE [position_sum |-> loop.position_sum, velocity_sum |-> loop.velocity_sum,
        count |-> loop.count,
        velocity_diff |->
          Steer(FracNormalizeOrZero(FracDiv(Frac(loop.velocity_sum, 1), loop.count)), e),
        steer |->
          Steer(FracNormalizeOrZero(
                  FracSubVec(FracDiv(Frac(loop.position_sum, 1), loop.count),
                             translation[e])), e)]

align_and_cohesion(e) ==
  /\ Runs("align_and_cohesion", e)
  /\ \E loop \in {AlignSums(e)} : \E l \in {AlignClosure(loop, e)} :
        /\ align_locals' = [align_locals EXCEPT ![e] = l]
        /\ IF l.count = 0
           THEN UNCHANGED <<aligment_force, cohesion_force>>
           ELSE /\ aligment_force' =
                     Accumulate(aligment_force, e, VScale(l.velocity_diff, AlignmentMultiplier))
                /\ cohesion_force' =
                     Accumulate(cohesion_force, e, VScale(l.steer, CohesionMultiplier))
  /\ Visit("align_and_cohesion", e)
  /\ UNCHANGED <<entities, kinematics, separation_force, acceleration,
                 kd_tree, schedule, status, delta_seconds, frame, separate_locals>>

\* ------------------------------------------------------- apply_acceleration
\* acceleration after the three accumulators are added to it
SummedAcceleration(e) ==
  VAdd(VAdd(VAdd(acceleration[e], aligment_force[e]), separation_force[e]),
       cohesion_force[e])

\* a variant without the clamp
IntegratedVelocityFree(e) ==
  VAdd(velocity[e], VScale(SummedAcceleration(e), delta_seconds))

\* velocity += acceleration * delta_seconds, then clamped to max_speed
IntegratedVelocity(e) ==
  clamp_magnitude(VAdd(velocity[e], VScale(SummedAcceleration(e), delta_seconds)),
                  max_speed(e))

\* a variant that leaves the value as it is
ConsumedKept(value) == value

\* value *= 0.
Consumed(value) == VScale(value, 0)

apply_acceleration ==
  /\ CanStart("apply_acceleration")
  /\ velocity' = [e \in entities |-> IntegratedVelocity(e)]
  /\ acceleration' = [e \in entities |-> Consumed(SummedAcceleration(e))]
  /\ aligment_force' = [e \in entities |-> Consumed(aligment_force[e])]
  /\ separation_force' = [e \in entities |-> Consumed(separation_force[e])]
  /\ cohesion_force' = [e \in entities |-> Consumed(cohesion_force[e])]
  /\ Done("apply_acceleration")
  /\ UNCHANGED <<entities, translation, kd_tree, schedule, visited,
                 delta_seconds, frame, locals>>

\* ---------------------------------------------------------- update_position
\* the closure: the position of one boid after the move
Moved(e) == VAdd(translation[e], VScale(velocity[e], delta_seconds))

update_position ==
  /\ CanStart("update_position")
  /\ translation' = [e \in entities |-> Moved(e)]
  /\ Done("update_position")
  /\ UNCHANGED <<entities, velocity, forces, kd_tree, schedule, visited,
                 delta_seconds, frame, locals>>

\* --------------------------------------------------------------- the frames
\* PreUpdate has run all its systems: Update runs.  The model follows
\* MaxFrames frames and the PreUpdate of the frame after them.
RunUpdate ==
  /\ schedule = "PreUpdate"
  /\ frame <= MaxFrames
  /\ \A s \in PreUpdateSystems : status[s] = "done"
  /\ schedule' = "Update"
  /\ UNCHANGED <<entities, kinematics, forces, kd_tree, status, visited,
                 delta_seconds, frame, locals>>

\* Update has run all its systems: the next frame starts, with its own delta
NextFrame ==
  /\ schedule = "Update"
  /\ \A s \in UpdateSystems : status[s] = "done"
  /\ frame' = frame + 1
  /\ delta_seconds' \in DeltaSeconds
  /\ schedule' = "PreUpdate"
  /\ status' = [s \in Systems |-> "pending"]
  /\ visited' = [s \in ForcePasses |-> {}]
  /\ separate_locals' = [e \in entities |-> NoSeparateLocals]
  /\ align_locals' = [e \in entities |-> NoAlignLocals]
  /\ UNCHANGED <<entities, kinematics, forces, kd_tree>>

Next ==
  \/ wrap_around_screen
  \/ update_spatial_tree
  \/ \E s \in ForcePasses : Begin(s)
  \/ \E e \in entities : separate(e)
  \/ \E e \in entities : align_and_cohesion(e)
  \/ \E s \in ForcePasses : End(s)
  \/ apply_acceleration
  \/ update_position
  \/ RunUpdate
  \/ NextFrame

Spec == Init /\ [][Next]_vars

\* =============================================================== properties
\* the step just taken is the run of a force pass's closure for boid e
ClosureRan(s, e) == e \notin visited[s] /\ e \in visited'[s]
\* the step just taken is the run of system s
SystemRan(s) == status[s] = "pending" /\ status'[s] = "done"

InViewport(p) ==
  /\ -HalfWidth <= p.x /\ p.x <= HalfWidth
  /\ -HalfHeight <= p.y /\ p.y <= HalfHeight

\* C1 (speed bound): once apply_acceleration has run in a frame, every boid
\* has a velocity of length at most its max_speed.
C1_SpeedBound ==
  status["apply_acceleration"] = "done" =>
    \A e \in entities : LenSq(velocity[e]) <= max_speed(e) * max_speed(e)

\* the integrator has clamped a velocity that the forces of the frame had
\* pushed to the limit along an oblique direction
C1_Witness ==
  \E e \in entities :
    /\ status["apply_acceleration"] = "done"
    /\ delta_seconds = 1
    /\ velocity[e].x # 0 /\ velocity[e].y # 0
    /\ LenSq(velocity[e]) > (max_speed(e) - 2) * (max_speed(e) - 2)

\* C2 (force bound): the steering deltas of separation, alignment and
\* cohesion, before they are multiplied by their weights, have a length of at
\* most max_force.
C2_ForceBound ==
  \A e \in entities :
    /\ LenSq(separate_locals[e].steer) <= max_force(e) * max_force(e)
    /\ LenSq(align_locals[e].velocity_diff) <= max_force(e) * max_force(e)
    /\ LenSq(align_locals[e].steer) <= max_force(e) * max_force(e)

\* one boid holds three deltas that were all cut down to max_force
C2_Witness ==
  \E e \in entities :
    /\ e \in visited["separate"] /\ e \in visited["align_and_cohesion"]
    /\ separate_locals[e].count > 0
    /\ LenSq(separate_locals[e].steer) > (max_force(e) - 2) * (max_force(e) - 2)
    /\ LenSq(align_locals[e].velocity_diff) > (max_force(e) - 2) * (max_force(e) - 2)
    /\ LenSq(align_locals[e].steer) > (max_force(e) - 2) * (max_force(e) - 2)

\* queries put to the index by the properties
QueryCenters == {Vec(0, 0), Vec(6, 0), Vec(3, 9), Vec(6, 8), Vec(-500, 400), Vec(-494, 392)}
QueryRadii == {-5, 0, 6, 10, 20}
Handles(results) == {results[i].entity : i \in DOMAIN results}

\* the distance between two points is less than the radius
CloserThan(p, q, radius) == radius > 0 /\ DistSq(p, q) < radius * radius

\* C3 (index against brute force): the index the simulation starts with
\* answers every query with nothing, and after every rebuild a query returns,
\* once each, the handles of exactly the boids whose position is at a distance
\* less than the radius from the centre.
C3_IndexEquivalence ==
  /\ \A c \in QueryCenters, r \in QueryRadii : query_within_radius(kd_tree, c, r) = <<>>
  /\ [][SystemRan("update_spatial_tree") =>
          \A c \in QueryCenters, r \in QueryRadii :
            LET results == query_within_radius(kd_tree', c, r)
            IN /\ Handles(results) =
                    {e \in entities : CloserThan(translation[e], c, r)}
               /\ Len(results) = Cardinality(Handles(results))]_vars

\* the index holds two boids and a query returns one of them only
C3_Witness ==
  /\ status["update_spatial_tree"] = "done"
  /\ Len(kd_tree) = 2
  /\ \E c \in QueryCenters, r \in QueryRadii :
       Len(query_within_radius(kd_tree, c, r)) = 1

\* C4 (wrap): wrap_around_screen sets a coordinate beyond the half extent to
\* minus the half extent, one below minus the half extent to the half extent,
\* and leaves a coordinate within the two, the edges included, as it is; each
\* axis by itself.
WrappedAxis(before, after, half) ==
  /\ before > half => after = -half
  /\ before < -half => after = half
  /\ (-half <= before /\ before <= half) => after = before
C4_WrapCorrect ==
  [][SystemRan("wrap_around_screen") =>
       \A e \in entities :
         /\ WrappedAxis(translation[e].x, translation'[e].x, HalfWidth)
         /\ WrappedAxis(translation[e].y, translation'[e].y, HalfHeight)]_vars

\* the first boid, spawned at (501, -401), has been wrapped to (-500, 400)
C4_Witness ==
  /\ frame = 1
  /\ status["wrap_around_screen"] = "done"
  /\ 1 \in entities
  /\ translation[1] = Vec(-HalfWidth, HalfHeight)

\* C5 (wrap keeps the boids in the viewport): from the moment
\* wrap_around_screen has run in a frame until update_position moves the
\* boids, every boid is inside the viewport, edges included.
C5_InViewportAfterWrap ==
  (status["wrap_around_screen"] = "done" /\ status["update_position"] # "done")
    => \A e \in entities : InViewport(translation[e])

\* in the second frame a boid that had left the viewport is back on an edge
C5_Witness ==
  /\ frame = 2
  /\ status["wrap_around_screen"] = "done"
  /\ \E e \in entities : translation[e].x = HalfWidth

\* the stage of the pipeline a system belongs to
Stage(s) ==
  CASE s = "wrap_around_screen" -> 1
    [] s = "update_spatial_tree" -> 2
    [] s \in {"separate", "align_and_cohesion"} -> 3
    [] s \in {"apply_acceleration", "update_position"} -> 4

\* C6 (pipeline order): a system has started in a frame only when every
\* system of an earlier stage (wrap, rebuild, forces, integrator) has
\* finished for all boids in that frame.
C6_PipelineOrder ==
  \A s \in Systems, t \in Systems :
    (Stage(t) < Stage(s) /\ status[s] # "pending") => status[t] = "done"

\* C7 (disjoint writes): a run of a force closure for a boid changes the
\* accumulators of that pass for that boid only: no other boid's
\* accumulators, no accumulator of another pass, no acceleration, no
\* position, no velocity and not the index.
OthersKeep(force, e) == \A o \in entities \ {e} : force'[o] = force[o]
C7_DisjointWrites ==
  [][\A e \in entities :
       /\ ClosureRan("separate", e) =>
            /\ UNCHANGED <<translation, velocity, kd_tree, acceleration,
                           aligment_force, cohesion_force>>
            /\ OthersKeep(separation_force, e)
       /\ ClosureRan("align_and_cohesion", e) =>
            /\ UNCHANGED <<translation, velocity, kd_tree, acceleration,
                           separation_force>>
            /\ OthersKeep(aligment_force, e)
            /\ OthersKeep(cohesion_force, e)]_vars

\* with two boids, each has accumulated forces of all three kinds
C7_Witness ==
  /\ Cardinality(entities) = 2
  /\ visited["separate"] = entities
  /\ visited["align_and_cohesion"] = entities
  /\ \A e \in entities :
       /\ separation_force[e] # ZeroVec
       /\ aligment_force[e] # ZeroVec
       /\ cohesion_force[e] # ZeroVec

\* the index holds every boid at the position the boid has now
IndexIsCurrent ==
  /\ Len(kd_tree) = Cardinality(entities)
  /\ \A i \in DOMAIN kd_tree : kd_tree[i].point = translation[kd_tree[i].entity]

\* the other boids within a radius of a boid
OthersWithin(e, radius) ==
  {o \in entities \ {e} : DistSq(translation[o], translation[e]) < radius * radius}

\* the other boids within a radius of a boid and not at its very position
Neighbours(e, radius) ==
  {o \in OthersWithin(e, radius) : DistSq(translation[o], translation[e]) > 0}

\* C8 (no neighbour, no force): for a boid with no other boid within the
\* radius of a pass, the pass leaves the boid's accumulator as it was.
C8_NoNeighbourNoForce ==
  [][\A e \in entities :
       /\ (ClosureRan("separate", e) /\ IndexIsCurrent
             /\ OthersWithin(e, desired_separation) = {})
            => separation_force'[e] = separation_force[e]
       /\ (ClosureRan("align_and_cohesion", e) /\ IndexIsCurrent
             /\ OthersWithin(e, neighbor_distance) = {})
            => /\ aligment_force'[e] = aligment_force[e]
               /\ cohesion_force'[e] = cohesion_force[e]]_vars

\* the indexed points that count in separation for a boid at `here`
Contributing(here) ==
  {i \in DOMAIN kd_tree :
     /\ DistSq(here, kd_tree[i].point) > 0
     /\ DistSq(here, kd_tree[i].point) < desired_separation * desired_separation}

\* the sum of diff / distance^2 over a set of indexed points
RECURSIVE DirectionSum(_, _)
DirectionSum(here, is) ==
  IF is = {} THEN ZeroFrac
  ELSE LET i == CHOOSE j \in is : TRUE
       IN FracAdd(DirectionSum(here, is \ {i}),
                  Frac(VSub(here, kd_tree[i].point), DistSq(here, kd_tree[i].point)))

\* C9 (separation skips distance zero): the separation pass of a boid counts
\* and sums exactly the indexed points at a distance d with
\* 0 < d < desired_separation; points at distance 0, its own or another
\* boid's, add nothing, and when no point counts the accumulator is unchanged.
C9_SeparationSelfExclusion ==
  [][\A e \in entities :
       ClosureRan("separate", e) =>
         LET here == translation[e]
         IN /\ separate_locals'[e].count = Cardinality(Contributing(here))
            /\ separate_locals'[e].sum = DirectionSum(here, Contributing(here))
            /\ Contributing(here) = {} => separation_force' = separation_force]_vars

\* two boids at one point, both in the index, and separation has run for one
\* of them without counting anything
C9_Witness ==
  \E e \in entities :
    /\ e \in visited["separate"]
    /\ Len(kd_tree) = 2
    /\ \A i \in DOMAIN kd_tree : kd_tree[i].point = translation[e]
    /\ separate_locals[e].count = 0
    /\ separation_force[e] = ZeroVec

RECURSIVE VelocitySum(_)
VelocitySum(es) ==
  IF es = {} THEN ZeroVec
  ELSE LET o == CHOOSE x \in es : TRUE
       IN VAdd(velocity[o], VelocitySum(es \ {o}))

\* C10 (alignment cancellation): when a boid has neighbours within
\* neighbor_distance (other boids, at a distance above 0) and their velocities
\* sum to the zero vector, the
\* alignment delta of the boid is minus its velocity, clamped to max_force.
C10_AlignmentCancellation ==
  [][\A e \in entities :
       (/\ ClosureRan("align_and_cohesion", e)
        /\ IndexIsCurrent
        /\ Neighbours(e, neighbor_distance) # {}
        /\ VelocitySum(Neighbours(e, neighbor_distance)) = ZeroVec)
         => align_locals'[e].velocity_diff =
              clamp_magnitude(VSub(ZeroVec, velocity[e]), max_force(e))]_vars

RECURSIVE PositionSum(_)
PositionSum(es) ==
  IF es = {} THEN ZeroVec
  ELSE LET o == CHOOSE x \in es : TRUE
       IN VAdd(translation[o], PositionSum(es \ {o}))

\* C11 (alignment and cohesion leave the boid itself out): the run of
\* align_and_cohesion for a boid counts the other boids within
\* neighbor_distance of it, and sums their velocities and their positions;
\* the boid's own entry in the index is in neither the count nor the sums.
C11_SelfExcluded ==
  [][\A e \in entities :
       (ClosureRan("align_and_cohesion", e) /\ IndexIsCurrent)
         => LET others == OthersWithin(e, neighbor_distance)
            IN /\ align_locals'[e].count = Cardinality(others)
               /\ align_locals'[e].velocity_sum = VelocitySum(others)
               /\ align_locals'[e].position_sum = PositionSum(others)]_vars

\* C12 (the integrator consumes the accumulators): apply_acceleration adds
\* acceleration and the three accumulators of a boid, times delta_seconds, to
\* its velocity and leaves all four at the zero vector; between two runs of
\* apply_acceleration only the force closures change an accumulator, so what a
\* run has added to the velocity is not there for a later run.
C12_AccumulatorsConsumed ==
  [][/\ SystemRan("apply_acceleration") =>
          \A e \in entities :
            /\ velocity'[e] =
                 clamp_magnitude(
                   VAdd(velocity[e],
                        VScale(VAdd(VAdd(VAdd(acceleration[e], aligment_force[e]),
                                         separation_force[e]), cohesion_force[e]),
                               delta_seconds)),
                   max_speed(e))
            /\ separation_force'[e] = ZeroVec
            /\ aligment_force'[e] = ZeroVec
            /\ cohesion_force'[e] = ZeroVec
            /\ acceleration'[e] = ZeroVec
     /\ (~SystemRan("apply_acceleration")
           /\ \A s \in ForcePasses, e \in entities : ~ClosureRan(s, e))
          => UNCHANGED forces]_vars

\* both force passes added a force to a boid, and apply_acceleration, run
\* after them in the same frame, has left its accumulators at zero
C12_Witness ==
  \E e \in entities :
    /\ status["apply_acceleration"] = "done"
    /\ e \in visited["separate"] /\ e \in visited["align_and_cohesion"]
    /\ separate_locals[e].steer # ZeroVec
    /\ align_locals[e].velocity_diff # ZeroVec
    /\ align_locals[e].steer # ZeroVec
    /\ separation_force[e] = ZeroVec
    /\ aligment_force[e] = ZeroVec
    /\ cohesion_force[e] = ZeroVec
    /\ acceleration[e] = ZeroVec

\* C13 (the index is a stable snapshot): whenever a force closure queries the
\* index, the index holds one point for every boid and that point is the
\* position the boid has at that moment: since the rebuild of the frame no
\* position has changed and the index has not been rebuilt.
C13_IndexSnapshotStable ==
  [][\A s \in ForcePasses, e \in entities : ClosureRan(s, e) => IndexIsCurrent]_vars

\* ------------------------------------- the brute-force passes of src/main.rs
\* the boids that pass d > 0. && d < neighbor_distance for boid e
NearOthers(e, radius) ==
  {o \in entities :
     LET d2 == DistSq(translation[e], translation[o])
     IN d2 > 0 /\ (radius > 0 /\ d2 < radius * radius)}

\* align: what it adds to the acceleration of boid e
align(e, radius) ==
  LET near == NearOthers(e, radius)
      count == Cardinality(near)
      sum == FracDiv(Frac(VelocitySum(near), 1), count)
  IN IF count = 0 THEN ZeroVec
     ELSE VScale(Steer(FracNormalizeOrZero(sum), e), AlignmentMultiplier)

\* cohesion: what it adds to the acceleration of boid e
cohesion(e, radius) ==
  LET near == NearOthers(e, radius)
      count == Cardinality(near)
      sum == FracDiv(Frac(PositionSum(near), 1), count)
      desired_position == FracNormalizeOrZero(FracSubVec(sum, translation[e]))
  IN IF count = 0 THEN ZeroVec
     ELSE VScale(Steer(desired_position, e), CohesionMultiplier)

\* C14 (the fused pass does what the two passes do): with the index holding
\* the current positions, the run of align_and_cohesion for a boid adds to its
\* alignment accumulator what align computes for it and to its cohesion
\* accumulator what cohesion computes for it, for the same radius, limits and
\* weights.
C14_FusedEquivalence ==
  [][\A e \in entities :
       (ClosureRan("align_and_cohesion", e) /\ IndexIsCurrent)
         => /\ aligment_force'[e] =
                 VAdd(aligment_force[e], align(e, neighbor_distance))
            /\ cohesion_force'[e] =
                 VAdd(cohesion_force[e], cohesion(e, neighbor_distance))]_vars

\* C15 (only the integrator changes a velocity): a step that changes the
\* velocity of any boid is a run of apply_acceleration: the wrap, the rebuild
\* of the index, the force closures and update_position leave every velocity
\* as it was; and apply_acceleration changes the velocity of a boid from that
\* boid's own acceleration and accumulators only: a boid within its max_speed
\* that has nothing to integrate keeps its velocity whatever the others have.
C15_VelocityOnlyInIntegrator ==
  [][/\ velocity' # velocity => SystemRan("apply_acceleration")
     /\ SystemRan("apply_acceleration") =>
          \A e \in entities :
            (/\ ~LengthGreater(velocity[e], max_speed(e))
             /\ \/ delta_seconds = 0
                \/ VAdd(VAdd(VAdd(acceleration[e], aligment_force[e]),
                             separation_force[e]), cohesion_force[e]) = ZeroVec)
              => velocity'[e] = velocity[e]]_vars

\* the velocities the boids are spawned with
SpawnVelocities == {heading[i] : heading \in SpawnHeadings, i \in 1..3}

\* in the second frame, after the wrap and the rebuild of the index, a boid
\* has the velocity the integrator of the first frame gave it
C15_Witness ==
  /\ frame = 2
  /\ status["wrap_around_screen"] = "done"
  /\ status["update_spatial_tree"] = "done"
  /\ \E e \in entities : velocity[e] \notin SpawnVelocities

====
